---- MODULE Spec2Model ----
(***************************************************************************)
(* Model of router_app.py: the suite locator (find_test_in_data), the      *)
(* attachment locator (get_attachment_by_name) and the lookup coordinator  *)
(* (get_test_attachments).                                                 *)
(***************************************************************************)
EXTENDS Naturals, Integers, Sequences, FiniteSets, TLC

VARIABLES
    \* find_test_in_data: its arguments, its locals, where it stands, what it returned,
    \* and the nodes it has popped so far (a history of the run).
    json_data, suite_name, test_name, stack, current_suite, lpc, ret, visited,
    \* get_attachment_by_name: its arguments, where it stands and what it returned.
    test_result, att_name, apc, att,
    \* get_test_attachments, per resolution: where it stands, its arguments, its
    \* local test_uid, what it returned, and histories of the requests it issued and
    \* of the replies it received.
    rpc, call, test_uid, returned, requests, replies

lvars == <<json_data, suite_name, test_name, stack, current_suite, lpc, ret, visited>>
avars == <<test_result, att_name, apc, att>>
rvars == <<rpc, call, test_uid, returned, requests, replies>>
vars == <<lvars, avars, rvars>>

\* ------------------------------------------------------------------ bounds
\* Largest suite-summary tree (number of nodes) of the general locator runs.
MaxNodes == 3

\* ------------------------------------------------------------- JSON values
\* Python's None, and a key that a JSON object does not carry.
None == "<None>"
NoKey == "<no key>"
\* find_test_in_data returns a node (its number in the tree) or None: number 0.
NoNode == 0

\* The characters of the strings the model uses (a TLA+ string cannot be indexed).
Chars(s) ==
    CASE s = "" -> <<>>
      [] s = "Test" -> <<"T", "e", "s", "t">>
      [] s = "TestSuite" -> <<"T", "e", "s", "t", "S", "u", "i", "t", "e">>
      [] s = "TestSuiteA" -> <<"T", "e", "s", "t", "S", "u", "i", "t", "e", "A">>
      [] s = "TestB" -> <<"T", "e", "s", "t", "B">>
      [] s = "test_a" -> <<"t", "e", "s", "t", "_", "a">>
      [] s = "Test Tracing" -> <<"T", "e", "s", "t", " ", "T", "r", "a", "c", "i", "n", "g">>
      [] s = "Screenshot" -> <<"S", "c", "r", "e", "e", "n", "s", "h", "o", "t">>
      [] s = "TestSuitePaginationScansList" -> <<"T", "e", "s", "t", "S", "u", "i", "t", "e", "P", "a", "g", "i", "n", "a", "t", "i", "o", "n", "S", "c", "a", "n", "s", "L", "i", "s", "t">>
      [] s = "test_scans_list_artifact_pagination" -> <<"t", "e", "s", "t", "_", "s", "c", "a", "n", "s", "_", "l", "i", "s", "t", "_", "a", "r", "t", "i", "f", "a", "c", "t", "_", "p", "a", "g", "i", "n", "a", "t", "i", "o", "n">>
      [] s = "suites" -> <<"s", "u", "i", "t", "e", "s">>

\* Python's `sub in s` on strings: sub occurs in s as a contiguous run.
StrIn(sub, s) ==
    LET a == Chars(sub)
        b == Chars(s)
    IN  \E k \in 0..Len(b) : k + Len(a) <= Len(b) /\ SubSeq(b, k + 1, k + Len(a)) = a

\* -------------------------------------------------- suite-summary trees
\* A tree is [parent, node]: nodes are numbered in pre-order, parent[1] = 0, and a
\* node's `children` list holds its children in ascending number (listed order).
\* node[i] is the JSON value: a non-object, or an object with optional keys name,
\* uid and children (children: NoKey, "list", or "null" for a JSON null).
RECURSIVE AncSelf(_, _)
AncSelf(p, i) == IF i = 0 THEN {} ELSE {i} \cup AncSelf(p, p[i])

RECURSIVE TreeShapes(_)
TreeShapes(n) ==
    IF n = 1 THEN {<<0>>}
    ELSE UNION {{Append(p, a) : a \in AncSelf(p, n - 1)} : p \in TreeShapes(n - 1)}

IsLeaf(p, i) == \A j \in 1..Len(p) : p[j] # i

NodeNames == {NoKey, "TestSuiteA", "TestB", "test_a"}

Uids == <<"u1", "u2", "u3", "u4", "u5", "u6", "u7", "u8">>

\* The JSON values a node may be: an object with optional name, uid and children
\* (children: no key, a list, or a JSON null), or a value that is no object.
NodeLabels ==
    [dict : {TRUE}, name : NodeNames, uid : {NoKey, "uid"},
     children : {NoKey, "list", "null"}]
    \cup {[dict |-> FALSE, name |-> NoKey, uid |-> NoKey, children |-> NoKey]}

\* A node that has children is an object whose children key holds a list. To keep
\* the family small, only the last node in pre-order (always a leaf) ranges over
\* every label; the other leaves are objects without a children key.
InnerLabels == [name : NodeNames, uid : {NoKey, "uid"}]

\* Every node that carries a uid carries one of its own.
WithUids(l) ==
    [i \in 1..Len(l) |-> [l[i] EXCEPT !.uid = IF @ = NoKey THEN NoKey ELSE Uids[i]]]

\* Every object has a string name (or none), an optional uid, an optional list of
\* child nodes, and every child is an object.
WellFormed(t) ==
    \A i \in 1..Len(t.node) : t.node[i].dict /\ t.node[i].children # "null"

\* node['children'] as a list of node numbers, in listed order.
ChildList(t, i) ==
    SelectSeq([k \in 1..Len(t.parent) |-> k], LAMBDA j : t.parent[j] = i)

Queries ==
    {<<"TestSuiteA", "test_a">>, <<"TestSuiteA", "TestB">>,
     <<"TestSuiteA", "TestSuiteA">>, <<"test_a", "test_a">>}

\* ------------------------------------------------------ find_test_in_data
\* node.get('name', '')
NodeName(nd) == IF nd.name = NoKey THEN "" ELSE nd.name

\* 'TestSuite' in name or 'Test' in name
IsSuiteName(name) == StrIn("TestSuite", name) \/ StrIn("Test", name)

\* A context that keeps the first suite it met.
SuiteContextSticky(cur, name) == IF cur = None /\ IsSuiteName(name) THEN name ELSE cur

\* if <suite>: current_suite = name
SuiteContext(cur, name) == IF IsSuiteName(name) THEN name ELSE cur

\* A match check that forgets the uid test, and one that forgets the suite test.
IsMatchNoUid(cur, name, nd, sn, tn) == cur = sn /\ name = tn
IsMatchAnySuite(cur, name, nd, sn, tn) == name = tn /\ nd.uid # NoKey

\* current_suite == suite_name and name == test_name and 'uid' in node
IsMatch(cur, name, nd, sn, tn) == cur = sn /\ name = tn /\ nd.uid # NoKey

Reverse(q) == [k \in 1..Len(q) |-> q[Len(q) + 1 - k]]

\* A push that makes the pops follow the listed order.
ExtendReversed(st, kids) == st \o Reverse(kids)

\* stack.extend(node['children']): the children follow the stack's entries.
Extend(st, kids) == st \o kids

\* One iteration of `while stack:` on the loop state s = [stack, cur, pc, ret].
LoopStep(t, sn, tn, s) ==
    LET i == s.stack[Len(s.stack)]
        rest == SubSeq(s.stack, 1, Len(s.stack) - 1)
        nd == t.node[i]
        name == NodeName(nd)
        cur == SuiteContext(s.cur, name)
    IN  IF ~nd.dict THEN [s EXCEPT !.stack = rest]
        ELSE IF IsMatch(cur, name, nd, sn, tn)
             THEN [stack |-> rest, cur |-> cur, pc |-> "returned", ret |-> i]
        ELSE IF nd.children = NoKey
             THEN [s EXCEPT !.stack = rest, !.cur = cur]
        ELSE IF nd.children = "null"
             THEN [stack |-> rest, cur |-> cur, pc |-> "raised", ret |-> NoNode]
        ELSE [s EXCEPT !.stack = Extend(rest, ChildList(t, i)), !.cur = cur]

\* stack = [json_data]; current_suite = None
LoopInit == [stack |-> <<1>>, cur |-> None, pc |-> "loop", ret |-> NoNode]

RECURSIVE RunLoop(_, _, _, _)
RunLoop(t, sn, tn, s) ==
    IF s.pc # "loop" THEN s
    ELSE IF s.stack = <<>> THEN [s EXCEPT !.pc = "returned", !.ret = NoNode]
    ELSE RunLoop(t, sn, tn, LoopStep(t, sn, tn, s))

\* The call as a whole: [pc |-> "returned" or "raised", ret |-> node number or None].
find_test_in_data(t, sn, tn) == RunLoop(t, sn, tn, LoopInit)

\* ------------------------------------------------- execution records
\* A record is [dict, parent, before, node]: the stages and steps are numbered in
\* pre-order, parent 0 marks a stage, the first `before` stages are beforeStages and
\* the others afterStages; a node's steps are its children in ascending number.
\* node[i] is [attachments, steps]: attachments NoKey or a list of attachment
\* objects [name, source] (either key may be missing), steps NoKey or "list".
MaxRecordNodes == 6

RECURSIVE ForestShapes(_)
ForestShapes(n) ==
    IF n = 1 THEN {<<0>>}
    ELSE UNION {{Append(p, a) : a \in AncSelf(p, n - 1) \cup {0}} : p \in ForestShapes(n - 1)}

Stages(p) == SelectSeq([k \in 1..Len(p) |-> k], LAMBDA j : p[j] = 0)

TracingName == "Test Tracing"

\* The attachment lists a node may carry, by kind.
AttachmentsOf(kind, i) ==
    LET src == <<"f1", "f2", "f3", "f4", "f5", "f6", "f7", "f8">>[i]
        alt == <<"g1", "g2", "g3", "g4", "g5", "g6", "g7", "g8">>[i]
    IN  CASE kind = "nokey" -> NoKey
          [] kind = "empty" -> <<>>
          [] kind = "trace" -> <<[name |-> TracingName, source |-> src]>>
          [] kind = "other" -> <<[name |-> "Screenshot", source |-> alt]>>
          [] kind = "other,trace" ->
                <<[name |-> "Screenshot", source |-> alt],
                  [name |-> TracingName, source |-> src]>>
          [] kind = "trace,trace" ->
                <<[name |-> TracingName, source |-> src],
                  [name |-> TracingName, source |-> alt]>>
          [] kind = "unnamed,trace" ->
                <<[name |-> NoKey, source |-> alt],
                  [name |-> TracingName, source |-> src]>>
          [] kind = "trace without source" ->
                <<[name |-> TracingName, source |-> NoKey]>>

\* To keep the family small, only the last node in pre-order (always a leaf) ranges
\* over every kind of list, and has an empty steps list when its attachments hold
\* no trace, no steps key otherwise.
InnerKinds == {"nokey", "trace"}
LastKinds ==
    {"nokey", "empty", "trace", "other", "other,trace", "trace,trace", "unnamed,trace"}

RecordNode(p, i, kind) ==
    [attachments |-> AttachmentsOf(kind, i),
     steps |-> IF i < Len(p) THEN (IF IsLeaf(p, i) THEN NoKey ELSE "list")
               ELSE IF kind \in {"empty", "other"} THEN "list" ELSE NoKey]

\* Python's None where an attachment object is expected.
NoAttachment == [none |-> TRUE]

\* for att in X.get('attachments', ()): if att.get('name') == name: return att
RECURSIVE FirstNamed(_, _, _)
FirstNamed(atts, k, name) ==
    IF atts = NoKey \/ k > Len(atts) THEN NoAttachment
    ELSE IF atts[k].name = name THEN atts[k]
    ELSE FirstNamed(atts, k + 1, name)

\* The steps of node i, in listed order.
StepList(r, i) ==
    SelectSeq([k \in 1..Len(r.parent) |-> k], LAMBDA j : r.parent[j] = i)

\* X.get('steps'): true for a list that is not empty.
HasSteps(r, i) == r.node[i].steps = "list" /\ StepList(r, i) # <<>>

\* _search_steps, from the k-th entry of `steps` on; the loops over beforeStages and
\* over afterStages have the same body.
RECURSIVE SearchSteps(_, _, _, _)
SearchSteps(r, steps, k, name) ==
    IF k > Len(steps) THEN NoAttachment
    ELSE LET i == steps[k]
             own == FirstNamed(r.node[i].attachments, 1, name)
             nested == IF HasSteps(r, i)
                       THEN SearchSteps(r, StepList(r, i), 1, name)
                       ELSE NoAttachment
         IN  IF own # NoAttachment THEN own
             ELSE IF nested # NoAttachment THEN nested
             ELSE SearchSteps(r, steps, k + 1, name)

\* test_result.get('beforeStages', ()) and test_result.get('afterStages', ())
BeforeStages(r) == SubSeq(Stages(r.parent), 1, r.before)
AfterStages(r) == SubSeq(Stages(r.parent), r.before + 1, Len(Stages(r.parent)))

\* The teardown stages searched first.
AfterStagesFirst(r, name) ==
    LET found == SearchSteps(r, AfterStages(r), 1, name)
    IN  IF found # NoAttachment THEN found
        ELSE SearchSteps(r, BeforeStages(r), 1, name)

get_attachment_by_name(r, name) ==
    LET found == SearchSteps(r, BeforeStages(r), 1, name)
    IN  IF found # NoAttachment THEN found
        ELSE SearchSteps(r, AfterStages(r), 1, name)

\* --------------------------------------------- the attachment locator's run
AttachInit ==
    /\ \E n \in 1..MaxRecordNodes : \E p \in ForestShapes(n) :
       \E b \in 0..Len(Stages(p)) : \E l \in [1..(n - 1) -> InnerKinds] :
       \E last \in LastKinds :
          test_result =
              [dict |-> TRUE, parent |-> p, before |-> b,
               node |-> [i \in 1..n |->
                   RecordNode(p, i, IF i < n THEN l[i] ELSE last)]]
    /\ att_name = TracingName
    /\ apc = "call"
    /\ att = NoAttachment

\* The call: the function has no step at which anything else can run.
Locate ==
    /\ apc = "call"
    /\ apc' = "returned"
    /\ att' = get_attachment_by_name(test_result, att_name)
    /\ UNCHANGED <<test_result, att_name, lvars, rvars>>

AttachIdle ==
    /\ test_result = [dict |-> FALSE]
    /\ att_name = TracingName
    /\ apc = "idle"
    /\ att = NoAttachment

LocatorIdle ==
    /\ json_data = [parent |-> <<0>>, node |-> <<>>]
    /\ suite_name = ""
    /\ test_name = ""
    /\ stack = <<>>
    /\ current_suite = None
    /\ lpc = "idle"
    /\ ret = NoNode
    /\ visited = <<>>

\* ---------------------------------------------------- get_test_attachments
\* Resolutions in flight at once.
MaxResolutions == 2

Resolutions == 1..MaxResolutions

\* What a fetch (requests.get, raise_for_status, response.json) may raise.
FetchErrors == {"ConnectionError", "Timeout", "HTTPError", "JSONDecodeError"}

\* What a fetch ends with: a parsed body, or the error raised (then there is no body).
NoBody == [dict |-> FALSE]
Reply(body) == [error |-> None, body |-> body]
Failure(e) == [error |-> e, body |-> NoBody]

\* Suite-summary bodies the reporting service may send.
ScenarioTree ==
    [parent |-> <<0, 1>>,
     node |-> <<[dict |-> TRUE, name |-> "TestSuitePaginationScansList", uid |-> NoKey,
                 children |-> "list"],
                [dict |-> TRUE, name |-> "test_scans_list_artifact_pagination",
                 uid |-> "abc123", children |-> NoKey]>>]

WrappedTree ==
    [parent |-> <<0, 1, 2>>,
     node |-> <<[dict |-> TRUE, name |-> "suites", uid |-> "r00t", children |-> "list"],
                [dict |-> TRUE, name |-> "TestSuitePaginationScansList", uid |-> NoKey,
                 children |-> "list"],
                [dict |-> TRUE, name |-> "test_scans_list_artifact_pagination",
                 uid |-> "def456", children |-> NoKey]>>]

EmptyUidTree ==
    [ScenarioTree EXCEPT !.node[2].uid = ""]

ListBody ==
    [parent |-> <<0>>,
     node |-> <<[dict |-> FALSE, name |-> NoKey, uid |-> NoKey, children |-> NoKey]>>]

NullChildrenTree ==
    [parent |-> <<0>>,
     node |-> <<[dict |-> TRUE, name |-> "suites", uid |-> NoKey, children |-> "null"]>>]

SuiteBodies == {ScenarioTree, WrappedTree, EmptyUidTree, ListBody, NullChildrenTree}

\* Execution-record bodies the reporting service may send.
ScenarioRecord ==
    [dict |-> TRUE, parent |-> <<0>>, before |-> 0,
     node |-> <<[attachments |-> <<[name |-> TracingName, source |-> "trace-file-xyz.zip"]>>,
                 steps |-> "list"]>>]

BareRecord ==
    [dict |-> TRUE, parent |-> <<0, 1>>, before |-> 1,
     node |-> <<[attachments |-> <<>>, steps |-> "list"],
                [attachments |-> NoKey, steps |-> NoKey]>>]

NoSourceRecord ==
    [ScenarioRecord EXCEPT !.node[1].attachments[1].source = NoKey]

ListRecord == [dict |-> FALSE]

RecordBodies == {ScenarioRecord, BareRecord, NoSourceRecord, ListRecord}

SuiteReplies == {Reply(b) : b \in SuiteBodies} \cup {Failure(e) : e \in FetchErrors}
ResultReplies == {Reply(b) : b \in RecordBodies} \cup {Failure(e) : e \in FetchErrors}

\* The scenario's call, one for an unknown test, one for a suite name without "Test".
Calls ==
    {[project_id |-> "P1", suite_name |-> "TestSuitePaginationScansList",
      test_name |-> "test_scans_list_artifact_pagination"],
     [project_id |-> "P1", suite_name |-> "TestSuitePaginationScansList",
      test_name |-> "test_a"],
     [project_id |-> "P1", suite_name |-> "suites",
      test_name |-> "test_scans_list_artifact_pagination"]}

NoCall == [project_id |-> None, suite_name |-> None, test_name |-> None]

\* The two URLs, by what they are built from.
SuitesUrl(project) == [data |-> "suites.json", project |-> project, uid |-> None]
TestCaseUrl(project, uid) == [data |-> "test-cases", project |-> project, uid |-> uid]

\* An except clause that catches the errors of `requests` alone.
CaughtRequestErrors(e) == e \in {"ConnectionError", "Timeout", "HTTPError"}

\* except Exception as e
Caught(e) == TRUE

\* return X
Return(v) == [pc |-> "returned", uid |-> None, value |-> v]

\* An exception raised inside the try block: logged and turned into None, or, were
\* it not caught, passed on to the caller.
Raise(e) == IF Caught(e) THEN Return(None) ELSE [pc |-> "raised", uid |-> None, value |-> e]

\* Python's truth value of a uid string.
Truthy(v) == v # "" /\ v # None /\ v # NoKey

\* The source of the attachment's name instead.
AttachmentName(a) == a.name

\* attachment_dict.get('source')
AttachmentSource(a) == IF a.source = NoKey THEN None ELSE a.source

\* A response kept in a place every resolution shares: the first one received wins.
SuitesShared(r, reply) ==
    IF \E q \in Resolutions : q # r /\ replies[q] # <<>>
    THEN replies[CHOOSE q \in Resolutions : q # r /\ replies[q] # <<>>][1]
    ELSE reply

\* response = requests.get(url, ...): a local of the call.
SuitesSeen(r, reply) == reply

\* The second fetch issued whatever the locator found.
AfterSuitesFetchAnyway(reply, sn, tn) ==
    IF reply.error # None THEN Raise(reply.error)
    ELSE LET loc == find_test_in_data(reply.body, sn, tn)
         IN  IF loc.pc = "raised" THEN Raise("TypeError")
             ELSE [pc |-> "fetch_result",
                   uid |-> IF loc.ret = NoNode THEN None ELSE reply.body.node[loc.ret].uid,
                   value |-> None]

\* From the reply to the suites fetch to the next fetch or the return.
AfterSuites(reply, sn, tn) ==
    IF reply.error # None THEN Raise(reply.error)
    ELSE LET loc == find_test_in_data(reply.body, sn, tn)
         IN  IF loc.pc = "raised" THEN Raise("TypeError")
             ELSE IF loc.ret = NoNode THEN Return(None)
             ELSE LET uid == reply.body.node[loc.ret].uid
                  IN  IF Truthy(uid)
                      THEN [pc |-> "fetch_result", uid |-> uid, value |-> None]
                      ELSE Return(None)

\* From the reply to the test-case fetch to the return.
AfterResult(reply) ==
    IF reply.error # None THEN Raise(reply.error)
    ELSE IF ~reply.body.dict THEN Raise("AttributeError")
    ELSE LET found == get_attachment_by_name(reply.body, TracingName)
         IN  Return(IF found # NoAttachment THEN AttachmentSource(found) ELSE None)

ResolveInit ==
    /\ rpc = [r \in Resolutions |-> "idle"]
    /\ call = [r \in Resolutions |-> NoCall]
    /\ test_uid = [r \in Resolutions |-> None]
    /\ returned = [r \in Resolutions |-> None]
    /\ requests = [r \in Resolutions |-> <<>>]
    /\ replies = [r \in Resolutions |-> <<>>]

\* The call arrives and issues the suites fetch.
Request(r) ==
    /\ rpc[r] = "idle"
    /\ \E c \in Calls :
          /\ call' = [call EXCEPT ![r] = c]
          /\ requests' = [requests EXCEPT ![r] = <<SuitesUrl(c.project_id)>>]
    /\ rpc' = [rpc EXCEPT ![r] = "fetch_suites"]
    /\ UNCHANGED <<test_uid, returned, replies, lvars, avars>>

\* The suites fetch ends, with a body or an error; the locator runs; the call
\* returns or issues the test-case fetch.
SuitesReply(r) ==
    /\ rpc[r] = "fetch_suites"
    /\ \E reply \in SuiteReplies :
          LET s == AfterSuites(SuitesSeen(r, reply), call[r].suite_name, call[r].test_name)
          IN  /\ replies' = [replies EXCEPT ![r] = Append(@, reply)]
              /\ rpc' = [rpc EXCEPT ![r] = s.pc]
              /\ test_uid' = [test_uid EXCEPT ![r] = s.uid]
              /\ returned' = [returned EXCEPT ![r] = s.value]
              /\ requests' =
                    [requests EXCEPT ![r] =
                        IF s.pc = "fetch_result"
                        THEN Append(@, TestCaseUrl(call[r].project_id, s.uid))
                        ELSE @]
    /\ UNCHANGED <<call, lvars, avars>>

\* The test-case fetch ends; the attachment locator runs; the call returns.
ResultReply(r) ==
    /\ rpc[r] = "fetch_result"
    /\ \E reply \in ResultReplies :
          LET s == AfterResult(reply)
          IN  /\ replies' = [replies EXCEPT ![r] = Append(@, reply)]
              /\ rpc' = [rpc EXCEPT ![r] = s.pc]
              /\ returned' = [returned EXCEPT ![r] = s.value]
    /\ UNCHANGED <<call, test_uid, requests, lvars, avars>>

ResolveNext == \E r \in Resolutions : Request(r) \/ SuitesReply(r) \/ ResultReply(r)

ResolveStart == ResolveInit /\ LocatorIdle /\ AttachIdle

ResolveSpec == ResolveStart /\ [][ResolveNext]_vars

\* Each fetch carries a timeout (timeout=REQUEST_TIMEOUT): it ends, with a reply or
\* with an error.
ResolveFair ==
    ResolveSpec /\ \A r \in Resolutions : WF_vars(SuitesReply(r) \/ ResultReply(r))

\* ---------------------------------------------- the locator, step by step
LocatorInit ==
    /\ \E n \in 1..MaxNodes : \E p \in TreeShapes(n) :
       \E l \in [1..(n - 1) -> InnerLabels] : \E last \in NodeLabels :
          json_data =
              [parent |-> p,
               node |-> WithUids([i \in 1..n |->
                   IF i = n THEN last
                   ELSE [dict |-> TRUE, name |-> l[i].name, uid |-> l[i].uid,
                         children |-> IF IsLeaf(p, i) THEN NoKey ELSE "list"]])]
    /\ \E q \in Queries : suite_name = q[1] /\ test_name = q[2]
    /\ stack = LoopInit.stack
    /\ current_suite = LoopInit.cur
    /\ lpc = LoopInit.pc
    /\ ret = LoopInit.ret
    /\ visited = <<>>
    /\ AttachIdle
    /\ ResolveInit

LoopState == [stack |-> stack, cur |-> current_suite, pc |-> lpc, ret |-> ret]

\* One pass through the loop body: pop a node and examine it.
Visit ==
    /\ lpc = "loop"
    /\ stack # <<>>
    /\ LET s == LoopStep(json_data, suite_name, test_name, LoopState)
       IN  /\ stack' = s.stack
           /\ current_suite' = s.cur
           /\ lpc' = s.pc
           /\ ret' = s.ret
    /\ visited' = Append(visited, stack[Len(stack)])
    /\ UNCHANGED <<json_data, suite_name, test_name, avars, rvars>>

\* The stack is empty: the loop ends and the function returns None.
Exhausted ==
    /\ lpc = "loop"
    /\ stack = <<>>
    /\ lpc' = "returned"
    /\ ret' = NoNode
    /\ UNCHANGED <<json_data, suite_name, test_name, stack, current_suite, visited, avars, rvars>>

LocatorNext == Visit \/ Exhausted

Spec == LocatorInit /\ [][LocatorNext]_vars

\* ------------------------------------------- trees with sibling suites
\* Largest tree of the sibling-suite runs: objects named after the query's suite, or
\* after its test with or without a uid.
MaxSiblingNodes == 5

SiblingLabels ==
    {[name |-> "TestSuiteA", uid |-> NoKey], [name |-> "test_a", uid |-> NoKey],
     [name |-> "test_a", uid |-> "uid"]}

SiblingInit ==
    /\ \E n \in 1..MaxSiblingNodes : \E p \in TreeShapes(n) :
       \E l \in [1..n -> SiblingLabels] :
          json_data =
              [parent |-> p,
               node |-> WithUids([i \in 1..n |->
                   [dict |-> TRUE, name |-> l[i].name, uid |-> l[i].uid,
                    children |-> IF IsLeaf(p, i) THEN NoKey ELSE "list"]])]
    /\ suite_name = "TestSuiteA"
    /\ test_name = "test_a"
    /\ stack = LoopInit.stack
    /\ current_suite = LoopInit.cur
    /\ lpc = LoopInit.pc
    /\ ret = LoopInit.ret
    /\ visited = <<>>
    /\ AttachIdle
    /\ ResolveInit

AttachStart == AttachInit /\ LocatorIdle /\ ResolveInit

AttachSpec == AttachStart /\ [][Locate]_vars

SiblingSpec == SiblingInit /\ [][LocatorNext]_vars

\* ------------------------------------------ the locator's visiting order
\* The order a full traversal pops the nodes: a node, then the subtrees of its
\* children from the last listed to the first.
RECURSIVE StackOrderFrom(_, _), StackOrderOver(_, _, _)
StackOrderFrom(t, i) ==
    <<i>> \o StackOrderOver(t, ChildList(t, i), Len(ChildList(t, i)))
StackOrderOver(t, kids, k) ==
    IF k = 0 THEN <<>>
    ELSE StackOrderFrom(t, kids[k]) \o StackOrderOver(t, kids, k - 1)

StackOrder(t) == StackOrderFrom(t, 1)

\* The name of the last suite-like node among ord[1..k], None when there is none.
RECURSIVE ContextAfter(_, _, _)
ContextAfter(t, ord, k) ==
    IF k = 0 THEN None
    ELSE LET nd == t.node[ord[k]]
             name == IF nd.name = NoKey THEN "" ELSE nd.name
         IN  IF nd.dict /\ StrIn("Test", name) THEN name
             ELSE ContextAfter(t, ord, k - 1)

\* ord[k] satisfies the match condition when ord[1..k] have been visited.
QualifiesAt(t, ord, k, sn, tn) ==
    LET nd == t.node[ord[k]]
    IN  /\ nd.dict
        /\ nd.name = tn
        /\ nd.uid # NoKey
        /\ ContextAfter(t, ord, k) = sn

Qualifying(t, sn, tn) ==
    {k \in 1..Len(StackOrder(t)) : QualifiesAt(t, StackOrder(t), k, sn, tn)}

Min(S) == CHOOSE x \in S : \A y \in S : x <= y

Nodes(t) == 1..Len(t.parent)

Position(q, x) == CHOOSE k \in 1..Len(q) : q[k] = x

InSeq(q, x) == \E k \in 1..Len(q) : q[k] = x

\* The nodes named tn that carry a uid.
Targets(t, tn) == {x \in Nodes(t) : t.node[x].dict /\ t.node[x].name = tn /\ t.node[x].uid # NoKey}

\* ---------------------------------------------------------------- claims

\* C1: on a well-formed tree where exactly one node is named test_name and carries a
\* uid, and that node is a descendant of a node named suite_name (a name that
\* contains "Test"), the locator returns that node.
C1_UniqueTargetFound ==
    (lpc # "loop" /\ WellFormed(json_data) /\ StrIn("Test", suite_name)) =>
        \A x \in Targets(json_data, test_name) :
            (/\ Targets(json_data, test_name) = {x}
             /\ \E a \in AncSelf(json_data.parent, json_data.parent[x]) :
                    json_data.node[a].name = suite_name)
            => ret = x

\* C6: the traversal always ends: while it runs, the stack holds nodes of the tree
\* that were not visited yet, each once, so every pass visits a new node of a finite
\* tree and the stack runs empty. On a well-formed tree it never raises, and when no
\* node satisfies the match condition in the visiting order it returns None.
C6_TerminatesAbsent ==
    /\ \A j, k \in 1..Len(visited) : visited[j] = visited[k] => j = k
    /\ \A j, k \in 1..Len(stack) : stack[j] = stack[k] => j = k
    /\ \A j \in 1..Len(stack) :
          stack[j] \in Nodes(json_data) /\ ~InSeq(visited, stack[j])
    /\ Len(visited) <= Len(json_data.parent)
    /\ WellFormed(json_data) =>
          /\ lpc # "raised"
          /\ (lpc = "returned" /\ Qualifying(json_data, suite_name, test_name) = {}
                  => ret = NoNode)

C6_Witness ==
    /\ lpc = "returned"
    /\ ret = NoNode
    /\ WellFormed(json_data)
    /\ \E i, j, k \in Nodes(json_data) :
          /\ json_data.node[i].name = NoKey
          /\ json_data.node[j].children = NoKey
          /\ json_data.node[k].children = "list" /\ IsLeaf(json_data.parent, k)
    /\ \E x \in Nodes(json_data) : json_data.node[x].name = test_name

\* C8: whenever a node's match condition is evaluated the context is the name of the
\* most recently visited suite-like node (that node included), None before any; a
\* node is returned exactly when it is named test_name, carries a uid and that
\* context is suite_name, whether or not the suite node is one of its ancestors.
C8_FlatContext ==
    LET k == Len(visited)
    IN  /\ current_suite = ContextAfter(json_data, visited, k)
        /\ ret # NoNode =>
              /\ k > 0
              /\ ret = visited[k]
              /\ QualifiesAt(json_data, visited, k, suite_name, test_name)
        /\ \A j \in 1..k :
              QualifiesAt(json_data, visited, j, suite_name, test_name)
                  => j = k /\ ret = visited[k]

\* A node returned under a suite that is neither the node nor one of its ancestors.
C8_Witness ==
    /\ lpc = "returned"
    /\ ret # NoNode
    /\ \A a \in AncSelf(json_data.parent, ret) : json_data.node[a].name # suite_name

\* The children of s that are named test_name and carry a uid.
TestsUnder(t, s, tn) == {x \in Targets(t, tn) : t.parent[x] = s}

\* Two sibling nodes named suite_name, a listed before b, each with a child that
\* satisfies the match condition, and no node outside their children satisfies it.
SiblingFixture(t, a, b, sn, tn) ==
    LET ord == StackOrder(t)
        hits == {ord[k] : k \in Qualifying(t, sn, tn)}
    IN  /\ a < b
        /\ t.parent[a] = t.parent[b]
        /\ t.node[a].name = sn
        /\ t.node[b].name = sn
        /\ hits \cap TestsUnder(t, a, tn) # {}
        /\ hits \cap TestsUnder(t, b, tn) # {}
        /\ hits \subseteq TestsUnder(t, a, tn) \cup TestsUnder(t, b, tn)

\* C9: the nodes are visited root first, siblings from the last listed to the first,
\* a later-listed sibling's whole subtree before any earlier-listed sibling; the
\* first node in that order that satisfies the match condition is returned and the
\* traversal stops there. With two sibling suites named suite_name that each hold a
\* matching child, the child (and uid) under the later-listed sibling is returned.
C9_FirstInStackOrder ==
    LET t == json_data
        ord == StackOrder(t)
        hits == Qualifying(t, suite_name, test_name)
    IN  /\ visited = SubSeq(ord, 1, Len(visited))
        /\ \A a, b \in Nodes(t) :
              (a < b /\ t.parent[a] = t.parent[b] /\ InSeq(visited, a)) =>
                  \A x \in Nodes(t) :
                      b \in AncSelf(t.parent, x) =>
                          /\ InSeq(visited, x)
                          /\ Position(visited, x) < Position(visited, a)
        /\ lpc = "returned" =>
              IF hits = {} THEN ret = NoNode /\ visited = ord
              ELSE ret = ord[Min(hits)] /\ Len(visited) = Min(hits)
        /\ lpc = "returned" =>
              \A a, b \in Nodes(t) :
                  SiblingFixture(t, a, b, suite_name, test_name) =>
                      /\ ret \in TestsUnder(t, b, test_name)
                      /\ \A x \in TestsUnder(t, a, test_name) :
                            t.node[x].uid # t.node[ret].uid

C9_Witness ==
    /\ lpc = "returned"
    /\ \E a, b \in Nodes(json_data) :
          /\ SiblingFixture(json_data, a, b, suite_name, test_name)
          /\ ret \in TestsUnder(json_data, b, test_name)

\* The places <<node, index>> of the attachments named `name`. Nodes are numbered in
\* pre-order with the beforeStages first, so the fixed search order (beforeStages in
\* listed order, then afterStages, a node's own attachments before its nested
\* steps, steps in listed order) is the order of the places.
Places(r, name) ==
    {pl \in Nodes(r) \X (1..2) :
        /\ r.node[pl[1]].attachments # NoKey
        /\ pl[2] <= Len(r.node[pl[1]].attachments)
        /\ r.node[pl[1]].attachments[pl[2]].name = name}

Earlier(a, b) == a[1] < b[1] \/ (a[1] = b[1] /\ a[2] <= b[2])

FirstPlace(r, name) ==
    CHOOSE a \in Places(r, name) : \A b \in Places(r, name) : Earlier(a, b)

\* C2: the attachment locator returns the first attachment named as requested in the
\* fixed search order, and None exactly when no attachment of that name exists in
\* any stage or nested step.
C2_FirstInSearchOrder ==
    apc = "returned" =>
        IF Places(test_result, att_name) = {} THEN att = NoAttachment
        ELSE LET pl == FirstPlace(test_result, att_name)
             IN  /\ att # NoAttachment
                 /\ att = test_result.node[pl[1]].attachments[pl[2]]

\* A trace three steps deep under the second beforeStages entry and nowhere else in
\* beforeStages, another at the top of an afterStages entry: the deep one is returned.
C2_Witness ==
    /\ apc = "returned"
    /\ test_result.before >= 2
    /\ Len(AfterStages(test_result)) >= 1
    /\ LET r == test_result
           second == BeforeStages(r)[2]
           after == AfterStages(r)[1]
       IN  \E x \in Nodes(r) :
              /\ r.parent[x] # 0
              /\ r.parent[r.parent[x]] # 0
              /\ r.parent[r.parent[r.parent[x]]] = second
              /\ \A pl \in Places(r, att_name) : pl[1] \in {x, after}
              /\ <<x, 1>> \in Places(r, att_name)
              /\ <<after, 1>> \in Places(r, att_name)
              /\ att = r.node[x].attachments[1]

\* The node the locator's visiting order finds first, and its uid.
FirstQualifying(t, sn, tn) == StackOrder(t)[Min(Qualifying(t, sn, tn))]

\* The locator runs on the first reply's body, when there is one.
LocatedIn(r) ==
    IF Len(replies[r]) >= 1 /\ replies[r][1].error = None
    THEN find_test_in_data(replies[r][1].body, call[r].suite_name, call[r].test_name)
    ELSE [pc |-> "not run", ret |-> NoNode]

\* C3: a resolution issues the execution-record fetch only as its second request,
\* after the suites fetch succeeded and the locator returned a node; when the
\* locator returns None the resolution returns None and has issued no such fetch.
C3_RecordFetchAfterLocate ==
    \A r \in Resolutions :
        LET loc == LocatedIn(r)
        IN  /\ \A k \in 1..Len(requests[r]) :
                  requests[r][k].data = "test-cases" =>
                      /\ k = 2
                      /\ requests[r][1].data = "suites.json"
                      /\ loc.pc = "returned"
                      /\ loc.ret # NoNode
            /\ (loc.pc = "returned" /\ loc.ret = NoNode) =>
                  /\ rpc[r] = "returned"
                  /\ returned[r] = None
                  /\ Len(requests[r]) = 1
                  /\ Len(replies[r]) = 1

\* The scenario's summary tree, queried for an unknown test.
C3_Witness ==
    \E r \in Resolutions :
        /\ rpc[r] = "returned"
        /\ call[r].test_name = "test_a"
        /\ replies[r] = <<Reply(ScenarioTree)>>
        /\ requests[r] = <<SuitesUrl("P1")>>

\* C4: no error escapes the call; a resolution that received a failed fetch has
\* returned None, as after a miss; a returned value is None or the source of an
\* attachment of the record received; and every resolution in flight gets to return.
C4_FailuresEndAbsent ==
    /\ [](\A r \in Resolutions :
            /\ rpc[r] # "raised"
            /\ (\E k \in 1..Len(replies[r]) : replies[r][k].error # None)
                  => rpc[r] = "returned" /\ returned[r] = None
            /\ rpc[r] = "returned" =>
                  \/ returned[r] = None
                  \/ /\ Len(replies[r]) = 2
                     /\ \E pl \in Places(replies[r][2].body, TracingName) :
                           returned[r] =
                               replies[r][2].body.node[pl[1]].attachments[pl[2]].source)
    /\ \A r \in Resolutions :
          (rpc[r] \in {"fetch_suites", "fetch_result"}) ~> (rpc[r] = "returned")

\* A resolution whose second fetch timed out, and one whose first body did not parse.
C4_Witness ==
    \E r, q \in Resolutions :
        /\ rpc[r] = "returned"
        /\ Len(replies[r]) = 2
        /\ replies[r][2].error = "Timeout"
        /\ rpc[q] = "returned"
        /\ replies[q] = <<Failure("JSONDecodeError")>>

\* C5: when both fetches succeed, the second fetch is for the uid of the node the
\* locator finds, and the call returns the source of the first attachment named
\* "Test Tracing" in the record received (None when there is none, or no source).
\* In the scenario the result is "trace-file-xyz.zip"; with a record that holds no
\* attachment it is None.
C5_ReturnsTraceSource ==
    \A r \in Resolutions :
        (Len(replies[r]) = 2 /\ replies[r][2].error = None /\ replies[r][2].body.dict) =>
            LET tree == replies[r][1].body
                rec == replies[r][2].body
                node == FirstQualifying(tree, call[r].suite_name, call[r].test_name)
                pls == Places(rec, TracingName)
                first == FirstPlace(rec, TracingName)
                src == rec.node[first[1]].attachments[first[2]].source
            IN  /\ rpc[r] = "returned"
                /\ Qualifying(tree, call[r].suite_name, call[r].test_name) # {}
                /\ requests[r][2] = TestCaseUrl(call[r].project_id, tree.node[node].uid)
                /\ returned[r] = IF pls = {} \/ src = NoKey THEN None ELSE src
                /\ (tree = ScenarioTree /\ rec = ScenarioRecord) =>
                      /\ requests[r][2].uid = "abc123"
                      /\ returned[r] = "trace-file-xyz.zip"
                /\ rec = BareRecord => returned[r] = None

C5_Witness ==
    \E r \in Resolutions :
        /\ call[r] = [project_id |-> "P1", suite_name |-> "TestSuitePaginationScansList",
                      test_name |-> "test_scans_list_artifact_pagination"]
        /\ replies[r] = <<Reply(ScenarioTree), Reply(ScenarioRecord)>>
        /\ returned[r] = "trace-file-xyz.zip"

\* A resolution run alone on the replies reps.
Alone(c, reps) ==
    LET a == AfterSuites(reps[1], c.suite_name, c.test_name)
    IN  IF a.pc = "fetch_result" /\ Len(reps) = 2 THEN AfterResult(reps[2]) ELSE a

\* C7: whatever the interleaving, a resolution stands where it would stand had it
\* run alone with its own arguments and replies, and a step of one resolution
\* changes nothing of another.
C7_Independent ==
    /\ [](\A r \in Resolutions :
            replies[r] # <<>> =>
                LET a == Alone(call[r], replies[r])
                IN  /\ rpc[r] = a.pc
                    /\ returned[r] = a.value
                    /\ test_uid[r] = IF Len(replies[r]) = 1 THEN a.uid ELSE test_uid[r])
    /\ [][\A r, q \in Resolutions :
            (r # q /\ rpc'[q] # rpc[q]) =>
                /\ rpc'[r] = rpc[r]
                /\ call'[r] = call[r]
                /\ test_uid'[r] = test_uid[r]
                /\ returned'[r] = returned[r]
                /\ requests'[r] = requests[r]
                /\ replies'[r] = replies[r]]_vars

\* Two resolutions of the same call, one returned, one still waiting for its record.
C7_Witness ==
    \E r, q \in Resolutions :
        /\ r # q
        /\ call[r] = call[q]
        /\ rpc[r] = "fetch_result"
        /\ rpc[q] = "returned"
        /\ Len(replies[q]) = 2
        /\ replies[q][1] # replies[r][1]
        /\ returned[q] = "trace-file-xyz.zip"

\* C10: the context is None or a name that contains "Test"; so with a suite_name
\* that does not contain "Test" the context never equals it, the locator returns
\* None on every tree and for every test_name, and a resolution that received the
\* tree returns None without a second fetch.
C10_NonSuiteNameAbsent ==
    /\ current_suite = None \/ StrIn("Test", current_suite)
    /\ ~StrIn("Test", suite_name) =>
          /\ ret = NoNode
          /\ current_suite # suite_name
          /\ lpc # "loop" =>
                AfterSuites(Reply(json_data), suite_name, test_name) = Return(None)

\* A node named test_name with a uid under a node that bears the suite_name.
C10_Witness ==
    /\ lpc = "returned"
    /\ ~StrIn("Test", suite_name)
    /\ \E x \in Targets(json_data, test_name) :
          \E a \in AncSelf(json_data.parent, json_data.parent[x]) :
              json_data.node[a].name = suite_name

====
